---------------------------- MODULE Spec2Model ----------------------------
(***************************************************************************)
(* Model of the notification dispatch service of dwellgo                   *)
(* (package services, NotificationService): SendNotification and           *)
(* SendBulkNotifications with the SES (email) and SNS (SMS) transports as  *)
(* external calls whose outcome is nondeterministic.                       *)
(***************************************************************************)
EXTENDS Naturals, Sequences, FiniteSets

VARIABLES
    entry,      \* the caller API that was invoked
    requests,   \* its input: the request (a sequence of one) or the batch
    pc,         \* position of the single goroutine running the call
    idx,        \* position of the range loop of SendBulkNotifications
    handler,    \* the function the priority switch of SendNotification chose
    emailResp,  \* emailResp of sendUrgent/sendHighPriorityNotification
    transport,  \* log of the SES SendEmail / SNS Publish calls made
    started,    \* log of the SendNotification invocations (request positions)
    returns,    \* log of the values SendNotification returned
    responses,  \* responses slice of SendBulkNotifications
    result,     \* what the invoked caller API returned
    uuids,      \* number of uuid.New() values drawn so far
    job,        \* rendering: the template strings and the variables map
    out,        \* rendering: the strings as replaced so far
    part,       \* rendering: the string replaceVariables is working on
    todo,       \* rendering: keys the range loop has not yet visited
    last,       \* rendering: the last strings.ReplaceAll call made
    handed,     \* rendering: what was returned / handed to the transport
    httpReq,    \* the HTTP request being served
    handlers,   \* gin.Context.handlers: the chain of the matched route
    index,      \* position in the chain of the handler to run next
    aborted,    \* gin.Context.IsAborted()
    status,     \* status code of the response written (0: none yet)
    Keys,       \* gin.Context.Keys[UserClaimsKey]
    ran,        \* the route handlers that ran
    body,       \* the JSON value written as the response
    s3,         \* log of the S3Service calls made
    validated   \* the ValidateToken call of AuthMiddleware and its outcome

vars == <<entry, requests, pc, idx, handler, emailResp, transport, started,
          returns, responses, result, uuids>>

rvars == <<job, out, part, todo, last, handed>>

hvars ==
    <<httpReq, handlers, index, aborted, status, Keys, ran, body, s3, validated>>

-----------------------------------------------------------------------------
(* Bounds and input domains *)

\* longest batch handed to SendBulkNotifications
MaxBatch == 3

ValidUUID1 == "6ba7b810-9dad-11d1-80b4-00c04fd430c8"
ValidUUID2 == "6ba7b811-9dad-11d1-80b4-00c04fd430c8"

\* an upper-case spelling of ValidUUID1, which the uuid package parses too
UpperUUID1 == "6BA7B810-9DAD-11D1-80B4-00C04FD430C8"

LandlordIDs == {ValidUUID1, "not-a-uuid", ""}
RecipientIDs == {ValidUUID2, "not-a-uuid", ""}
Phones == {"", "+15551234567", "+15557654321"}
Emails == {"a@b.com", "c@d.org"}
Priorities == {"", "low", "medium", "high", "urgent", "emergency", "URGENT"}

CriticalTypes ==
    {"maintenance_emergency", "payment_overdue", "lease_violation",
     "property_damage", "security_breach"}

Types == CriticalTypes \cup
    {"Maintenance_Emergency", "maintenance_request", "payment_due", "xyz", ""}

\* NotificationRequest (the fields the dispatch reads)
Requests ==
    [Type : Types, LandlordID : LandlordIDs, RecipientID : RecipientIDs,
     RecipientEmail : Emails, RecipientPhone : Phones, Priority : Priorities]

\* the requests batches are built from
BulkRequests ==
    {r \in Requests :
        /\ r.Type = "xyz"
        /\ r.Priority \in {"low", "urgent"}
        /\ r.RecipientPhone = "+15551234567"
        /\ <<r.LandlordID, r.RecipientID>> \in
              {<<ValidUUID1, ValidUUID2>>, <<"not-a-uuid", ValidUUID2>>,
               <<ValidUUID1, "">>}}

Batches == UNION {[1..n -> BulkRequests] : n \in 0..MaxBatch}

\* s.config.AWS.SES.FromEmail
FromEmail == "noreply@dwell.example"

-----------------------------------------------------------------------------
(* Values *)

\* a nil pointer / nil error; a non-nil pointer is a sequence of one value
Nil == <<>>
NoError == <<>>

\* fmt.Errorf(msg + ": %w", err)
Wrap(msg, err) == <<msg>> \o err

\* uuid.MustParse: whether the string parses as a UUID
ParsesAsUUID(s) == s \in {ValidUUID1, ValidUUID2, UpperUUID1}

\* the uuid.UUID a string parses to, written as UUID.String() writes it
\* (lower-case hexadecimal)
UUIDString(s) == IF s = UpperUUID1 THEN ValidUUID1 ELSE s

MustParsePanics(req) ==
    ~ParsesAsUUID(req.LandlordID) \/ ~ParsesAsUUID(req.RecipientID)

NotificationResponse(id, channel, now) ==
    [NotificationID |-> id, Status |-> "sent", SentAt |-> now,
     Channel |-> channel]

NoResult == [done |-> FALSE, response |-> Nil, responses |-> <<>>,
             err |-> NoError]


\* no rendering in progress
NoRequest == [Type |-> "", Title |-> "", Message |-> "", RecipientType |-> ""]
NoJob == [kind |-> "none", req |-> NoRequest, pass |-> 0, template |-> <<>>,
          variables |-> <<>>, first |-> <<>>]
NoCall == [s |-> "", key |-> "", made |-> FALSE]

-----------------------------------------------------------------------------
(* Pure parts of the dispatch *)

\* strings.ToLower on the modelled types
ToLower(t) == IF t = "Maintenance_Emergency" THEN "maintenance_emergency" ELSE t

\* variant: the type is lower-cased before the lookup
isCriticalNotificationType_CaseFold(notificationType) ==
    ToLower(notificationType) \in CriticalTypes

\* variant: "security_breach" is missing from the map
isCriticalNotificationType_Short(notificationType) ==
    notificationType \in CriticalTypes \ {"security_breach"}

\* isCriticalNotificationType: lookup in the criticalTypes map
isCriticalNotificationType(notificationType) ==
    notificationType \in CriticalTypes

\* variant: the priority is compared without regard to letter case
Route_CaseFold(priority) ==
    CASE priority \in {"urgent", "URGENT"} -> "sendUrgentNotification"
      [] priority = "high" -> "sendHighPriorityNotification"
      [] OTHER -> "sendEmailNotification"

\* the switch on req.Priority of SendNotification
Route(priority) ==
    CASE priority = "urgent" -> "sendUrgentNotification"
      [] priority = "high" -> "sendHighPriorityNotification"
      [] OTHER -> "sendEmailNotification"

\* variant: the urgent path also asks for a critical type
SMSAttempted_CriticalOnly(h, req) ==
    /\ h \in {"sendUrgentNotification", "sendHighPriorityNotification"}
    /\ req.RecipientPhone # ""
    /\ isCriticalNotificationType(req.Type)

\* the condition under which the chosen function calls sendSMSNotification
\* once its email went out
SMSAttempted(h, req) ==
    CASE h = "sendUrgentNotification" -> req.RecipientPhone # ""
      [] h = "sendHighPriorityNotification" ->
            req.RecipientPhone # "" /\ isCriticalNotificationType(req.Type)
      [] OTHER -> FALSE

\* variant: the email error is not checked before the SMS attempt
AfterEmail_Unchecked(h, req, ok) ==
    IF SMSAttempted(h, req) THEN "sendSMSNotification" ELSE "return"

\* variant: a failed email is sent again
AfterEmail_Retry(h, req, ok) ==
    IF ~ok THEN "sendEmailNotification"
    ELSE IF SMSAttempted(h, req) THEN "sendSMSNotification"
    ELSE "return"

\* variant: the sender address is also used as the destination
EmailInput_ToSender(req) == [from |-> FromEmail, to |-> <<FromEmail>>]

\* ses.SendEmailInput of sendEmailNotification: Source and
\* Destination.ToAddresses
EmailInput(req) == [from |-> FromEmail, to |-> <<req.RecipientEmail>>]

\* sns.PublishInput of sendSMSNotification: PhoneNumber (there is no sender)
SMSInput(req) == [from |-> "", to |-> <<req.RecipientPhone>>]

\* what the chosen function does with the outcome of sendEmailNotification
AfterEmail(h, req, ok) ==
    IF ~ok THEN "return"
    ELSE IF SMSAttempted(h, req) THEN "sendSMSNotification"
    ELSE "return"

\* the error the chosen function returns when sendEmailNotification failed
EmailError(h, err) ==
    CASE h = "sendUrgentNotification" ->
            Wrap("failed to send urgent email", err)
      [] h = "sendHighPriorityNotification" ->
            Wrap("failed to send high priority email", err)
      [] OTHER -> err

\* variant: the SMS error is returned to the caller
AfterSMS_Propagate(resp, smsErr) ==
    IF smsErr # NoError
    THEN [response |-> Nil, err |-> Wrap("failed to send SMS", smsErr)]
    ELSE [response |-> resp, err |-> NoError]

\* what sendUrgent/sendHighPriorityNotification return after the SMS attempt:
\* the SMS error is dropped, the email response is returned
AfterSMS(resp, smsErr) == [response |-> resp, err |-> NoError]

\* the tail of SendNotification: an error is wrapped and no response returned
SendNotificationReturn(response, err) ==
    IF err # NoError
    THEN [response |-> Nil, err |-> Wrap("failed to send notification", err)]
    ELSE [response |-> response, err |-> NoError]

\* variant: the response is put in front of the slice
BulkCollect_Prepend(acc, ret) ==
    IF ret.err # NoError THEN acc ELSE <<ret.response[1]>> \o acc

\* the loop body of SendBulkNotifications after SendNotification returned
BulkCollect(acc, ret) ==
    IF ret.err # NoError THEN acc ELSE Append(acc, ret.response[1])

\* variant: break instead of continue on a failed item
BulkAdvance_Break(i, n, ret) == IF ret.err # NoError THEN n + 1 ELSE i + 1

\* the position the range loop goes to after the item at position i
BulkAdvance(i, n, ret) == i + 1

\* no HTTP request is being served
NoParams ==
    [landlord_id |-> "", category |-> "", entity_id |-> "", file_key |-> "",
     file |-> FALSE, expires |-> ""]

NoHTTPRequest ==
    [Method |-> "", Path |-> "", Authorization |-> "", Params |-> NoParams]

HttpIdle ==
    /\ httpReq = NoHTTPRequest
    /\ handlers = <<>>
    /\ index = 1
    /\ aborted = FALSE
    /\ status = 0
    /\ Keys = Nil
    /\ ran = <<>>
    /\ body = Nil
    /\ s3 = <<>>
    /\ validated = Nil

-----------------------------------------------------------------------------
(* State machine *)

\* the entry points that build the request themselves
Convenience == {"SendMaintenanceNotification", "SendPaymentNotification"}

Init ==
    /\ entry \in {"SendNotification", "SendBulkNotifications"} \cup Convenience
    /\ requests \in CASE entry = "SendNotification" -> {<<r>> : r \in Requests}
                    [] entry = "SendBulkNotifications" -> Batches
                    [] OTHER -> {<<>>}
    /\ pc = entry
    /\ idx = 1
    /\ handler = "none"
    /\ emailResp = Nil
    /\ transport = <<>>
    /\ started = IF entry = "SendNotification" THEN <<1>> ELSE <<>>
    /\ returns = <<>>
    /\ responses = <<>>
    /\ result = NoResult
    /\ uuids = 0
    /\ job = NoJob
    /\ out = <<>>
    /\ part = 1
    /\ todo = {}
    /\ last = NoCall
    /\ handed = Nil
    /\ HttpIdle

\* SendNotification hands (response, err) back to whoever called it
Return(response, err) ==
    LET ret == SendNotificationReturn(response, err)
        rec == [req |-> idx, response |-> ret.response, err |-> ret.err]
    IN  /\ returns' = Append(returns, rec)
        /\ handler' = "none"
        /\ emailResp' = Nil
        /\ IF entry # "SendBulkNotifications"
           THEN /\ result' = [done |-> TRUE,
                              response |-> IF entry \in Convenience
                                           THEN Nil ELSE ret.response,
                              responses |-> <<>>, err |-> ret.err]
                /\ pc' = "returned"
                /\ UNCHANGED <<idx, responses>>
           ELSE /\ responses' = BulkCollect(responses, ret)
                /\ idx' = BulkAdvance(idx, Len(requests), ret)
                /\ pc' = "SendBulkNotifications"
                /\ UNCHANGED result

\* variant: the maintenance notification is sent as an emergency
MaintenanceNotificationRequest_Emergency(priority, recipientEmail, recipientPhone) ==
    [Type |-> "maintenance_emergency", LandlordID |-> ValidUUID1,
     RecipientID |-> ValidUUID2, RecipientEmail |-> recipientEmail,
     RecipientPhone |-> recipientPhone, Priority |-> priority]

\* the NotificationRequest SendMaintenanceNotification builds; the two ids
\* are UUID.String() of uuid.UUID values
MaintenanceNotificationRequest(priority, recipientEmail, recipientPhone) ==
    [Type |-> "maintenance_request", LandlordID |-> ValidUUID1,
     RecipientID |-> ValidUUID2, RecipientEmail |-> recipientEmail,
     RecipientPhone |-> recipientPhone, Priority |-> priority]

\* the NotificationRequest SendPaymentNotification builds
PaymentNotificationRequest(recipientEmail, recipientPhone) ==
    [Type |-> "payment_due", LandlordID |-> ValidUUID1,
     RecipientID |-> ValidUUID2, RecipientEmail |-> recipientEmail,
     RecipientPhone |-> recipientPhone, Priority |-> "medium"]

\* domain.MaintenanceRequest.Priority: the documented values
MaintenancePriorities == {"low", "medium", "high", "emergency"}

\* SendMaintenanceNotification up to its call of SendNotification; Priority
\* is a plain string, so other values than the documented ones can come in
SendMaintenanceNotification ==
    /\ pc = "SendMaintenanceNotification"
    /\ \E priority \in MaintenancePriorities \cup {"urgent", ""},
          recipientEmail \in Emails, recipientPhone \in Phones :
          requests' = <<MaintenanceNotificationRequest(
                            priority, recipientEmail, recipientPhone)>>
    /\ started' = <<1>>
    /\ pc' = "SendNotification"
    /\ UNCHANGED <<entry, idx, handler, emailResp, transport, returns,
                   responses, result, uuids>>
    /\ UNCHANGED <<rvars, hvars>>

\* SendPaymentNotification up to its call of SendNotification
SendPaymentNotification ==
    /\ pc = "SendPaymentNotification"
    /\ \E recipientEmail \in Emails, recipientPhone \in Phones :
          requests' = <<PaymentNotificationRequest(
                            recipientEmail, recipientPhone)>>
    /\ started' = <<1>>
    /\ pc' = "SendNotification"
    /\ UNCHANGED <<entry, idx, handler, emailResp, transport, returns,
                   responses, result, uuids>>
    /\ UNCHANGED <<rvars, hvars>>

\* SendBulkNotifications: the head of the range loop, and the final return
BulkLoop ==
    /\ pc = "SendBulkNotifications"
    /\ IF idx <= Len(requests)
       THEN /\ pc' = "SendNotification"
            /\ started' = Append(started, idx)
            /\ UNCHANGED result
       ELSE /\ pc' = "returned"
            /\ result' = [done |-> TRUE, response |-> Nil,
                          responses |-> responses, err |-> NoError]
            /\ UNCHANGED started
    /\ UNCHANGED <<entry, requests, idx, handler, emailResp, transport,
                   returns, responses, uuids>>
    /\ UNCHANGED <<rvars, hvars>>

\* SendNotification up to the call of the chosen function: building the
\* domain.Notification runs uuid.MustParse, which panics on an identifier
\* that does not parse; nothing on the call path recovers
SendNotification ==
    /\ pc = "SendNotification"
    /\ IF MustParsePanics(requests[idx])
       THEN /\ pc' = "panicked"
            /\ UNCHANGED handler
       ELSE /\ handler' = Route(requests[idx].Priority)
            /\ pc' = "sendEmailNotification"
    /\ UNCHANGED <<entry, requests, idx, emailResp, transport, started,
                   returns, responses, result, uuids>>
    /\ UNCHANGED <<rvars, hvars>>

\* sendEmailNotification (the SES SendEmail call) and what its caller does
\* with the outcome
sendEmailNotification ==
    /\ pc = "sendEmailNotification"
    /\ \E ok \in BOOLEAN :
         LET req == requests[idx]
             call == [channel |-> "email", req |-> idx,
                      from |-> EmailInput(req).from,
                      to |-> EmailInput(req).to, ok |-> ok]
             now == Len(transport) + 1
             resp == NotificationResponse(uuids + 1, "email", now)
             next == AfterEmail(handler, req, ok)
         IN  /\ transport' = Append(transport, call)
             /\ uuids' = IF ok THEN uuids + 1 ELSE uuids
             /\ IF next = "return"
                THEN IF ok
                     THEN Return(<<resp>>, NoError)
                     ELSE Return(Nil, EmailError(handler,
                                    Wrap("failed to send email", <<"ses">>)))
                ELSE /\ pc' = next
                     /\ emailResp' = IF ok THEN <<resp>> ELSE emailResp
                     /\ UNCHANGED <<idx, handler, returns, responses, result>>
    /\ UNCHANGED <<entry, requests, started>>
    /\ UNCHANGED <<rvars, hvars>>

\* sendSMSNotification (the SNS Publish call) and the return of
\* sendUrgent/sendHighPriorityNotification
sendSMSNotification ==
    /\ pc = "sendSMSNotification"
    /\ LET req == requests[idx] IN
       IF req.RecipientPhone = ""
       THEN \* rejected before any transport call
            LET r == AfterSMS(emailResp,
                        <<"recipient phone number is required for SMS notifications">>)
            IN  /\ Return(r.response, r.err)
                /\ UNCHANGED <<transport, uuids>>
       ELSE \E ok \in BOOLEAN :
            LET call == [channel |-> "sms", req |-> idx,
                         from |-> SMSInput(req).from,
                         to |-> SMSInput(req).to, ok |-> ok]
                smsErr == IF ok THEN NoError
                          ELSE Wrap("failed to send SMS", <<"sns">>)
                r == AfterSMS(emailResp, smsErr)
            IN  /\ transport' = Append(transport, call)
                /\ uuids' = IF ok THEN uuids + 1 ELSE uuids
                /\ Return(r.response, r.err)
    /\ UNCHANGED <<entry, requests, started>>
    /\ UNCHANGED <<rvars, hvars>>

Next ==
    \/ SendMaintenanceNotification
    \/ SendPaymentNotification
    \/ BulkLoop
    \/ SendNotification
    \/ sendEmailNotification
    \/ sendSMSNotification

Spec == Init /\ [][Next]_vars

-----------------------------------------------------------------------------
(* Observations on the logs *)

\* positions in the transport log of the calls made on channel ch for the
\* request at position i
CallsOf(i, ch) ==
    {k \in DOMAIN transport :
        transport[k].req = i /\ transport[k].channel = ch}

EmailSucceeded(i) == \E k \in CallsOf(i, "email") : transport[k].ok
EmailFailed(i) == \E k \in CallsOf(i, "email") : ~transport[k].ok

Started == {started[k] : k \in DOMAIN started}
Returned(i) == \E k \in DOMAIN returns : returns[k].req = i
RetOf(i) == returns[CHOOSE k \in DOMAIN returns : returns[k].req = i]

SentByEmail(ret) ==
    /\ ret.err = NoError
    /\ Len(ret.response) = 1
    /\ ret.response[1].Status = "sent"
    /\ ret.response[1].Channel = "email"

Bulk == entry = "SendBulkNotifications"

-----------------------------------------------------------------------------
(* C1..C7: one SendNotification call *)

\* C1: a failed email transport call makes SendNotification return an error
\* and no response, and no SMS transport call is ever made for that request;
\* every SMS transport call comes after a successful email transport call for
\* the same request.
C1_EmailFailureFatal ==
    \A k \in DOMAIN transport :
        LET i == transport[k].req IN
        /\ (transport[k].channel = "email" /\ ~transport[k].ok) =>
              /\ CallsOf(i, "sms") = {}
              /\ Returned(i)
              /\ RetOf(i).err # NoError
              /\ RetOf(i).response = Nil
              /\ ~Bulk => (result.done /\ result.err # NoError
                           /\ result.response = Nil)
        /\ transport[k].channel = "sms" =>
              \E j \in 1..(k - 1) :
                  /\ transport[j].channel = "email"
                  /\ transport[j].req = i
                  /\ transport[j].ok

\* an email failure on a request for which an SMS would otherwise go out
C1_Witness ==
    \E i \in Started :
        /\ EmailFailed(i)
        /\ requests[i].Priority = "urgent"
        /\ requests[i].RecipientPhone # ""
        /\ Returned(i)

\* C2: with a priority other than "high" and "urgent" (empty and unrecognized
\* values included) no SMS transport call is ever made, whatever the type and
\* the phone number, and a call that returned made its one email call.
C2_EmailOnly ==
    \A i \in Started :
        requests[i].Priority \notin {"high", "urgent"} =>
            /\ CallsOf(i, "sms") = {}
            /\ Returned(i) => Cardinality(CallsOf(i, "email")) = 1

C2_Witness ==
    \E i \in Started :
        /\ requests[i].Priority \in {"", "URGENT", "emergency"}
        /\ requests[i].Type = "security_breach"
        /\ requests[i].RecipientPhone # ""
        /\ Returned(i)
        /\ EmailSucceeded(i)

\* C3: once the email transport call succeeded, SendNotification returns no
\* error and a response with status "sent" and channel "email", whether the
\* SMS was not planned, skipped, succeeded or failed (until it returns, only
\* the SMS attempt of that request is pending); any two calls whose email
\* succeeded return the same status and channel.
C3_EmailAuthoritative ==
    /\ \A i \in Started :
          EmailSucceeded(i) =>
              IF Returned(i)
              THEN SentByEmail(RetOf(i))
              ELSE pc = "sendSMSNotification" /\ idx = i
    /\ \A i, j \in Started :
          (EmailSucceeded(i) /\ EmailSucceeded(j) /\ Returned(i) /\ Returned(j))
            => /\ RetOf(i).err = RetOf(j).err
               /\ Len(RetOf(i).response) = 1
               /\ Len(RetOf(j).response) = 1
               /\ RetOf(i).response[1].Status = RetOf(j).response[1].Status
               /\ RetOf(i).response[1].Channel = RetOf(j).response[1].Channel

\* the same request dispatched twice, the SMS succeeding once and failing once
C3_Witness ==
    \E i, j \in Started :
        /\ requests[i] = requests[j]
        /\ Returned(i) /\ Returned(j)
        /\ EmailSucceeded(i) /\ EmailSucceeded(j)
        /\ \E k \in CallsOf(i, "sms") : transport[k].ok
        /\ \E k \in CallsOf(j, "sms") : ~transport[k].ok

HighCritical(i) ==
    /\ requests[i].Priority = "high"
    /\ requests[i].Type \in
          {"maintenance_emergency", "payment_overdue", "lease_violation",
           "property_damage", "security_breach"}

\* C4 as stated: for priority "high" and a critical type, a non-empty phone
\* number means both transports are invoked, and an empty one means only the
\* email transport is invoked and no error is returned.
C4_Original ==
    \A i \in Started :
        (HighCritical(i) /\ Returned(i)) =>
            IF requests[i].RecipientPhone # ""
            THEN CallsOf(i, "email") # {} /\ CallsOf(i, "sms") # {}
            ELSE /\ CallsOf(i, "email") # {}
                 /\ CallsOf(i, "sms") = {}
                 /\ RetOf(i).err = NoError

\* C4 (amended): for priority "high" and a critical type, a call that returned
\* made exactly one email transport call; with a non-empty phone number the
\* SMS transport is invoked (once) exactly when that email call succeeded;
\* with an empty phone number no SMS call is made and an error is returned
\* exactly when the email call failed.
C4_HighCritical ==
    \A i \in Started :
        (HighCritical(i) /\ Returned(i)) =>
            /\ Cardinality(CallsOf(i, "email")) = 1
            /\ IF requests[i].RecipientPhone # ""
               THEN /\ EmailSucceeded(i) =>
                          Cardinality(CallsOf(i, "sms")) = 1
                    /\ EmailFailed(i) => CallsOf(i, "sms") = {}
               ELSE /\ CallsOf(i, "sms") = {}
                    /\ (RetOf(i).err # NoError) <=> EmailFailed(i)

C4_Witness ==
    \E i \in Started :
        /\ HighCritical(i)
        /\ requests[i].Type = "security_breach"
        /\ requests[i].RecipientPhone # ""
        /\ Returned(i)
        /\ CallsOf(i, "sms") # {}

\* C5: with priority "high" and a type that is not exactly one of the five
\* critical types (a different letter case included) no SMS transport call is
\* ever made, even with a phone number.
C5_NonCriticalNoSMS ==
    \A i \in Started :
        (requests[i].Priority = "high" /\ ~HighCritical(i)) =>
            CallsOf(i, "sms") = {}

C5_Witness ==
    \E i \in Started :
        /\ requests[i].Priority = "high"
        /\ requests[i].Type = "Maintenance_Emergency"
        /\ requests[i].RecipientPhone # ""
        /\ Returned(i)
        /\ EmailSucceeded(i)

\* C6: with priority "urgent" and any type, a call that returned made exactly
\* one email transport call, and made an SMS transport call (one) if and only
\* if the phone number is non-empty and the email call succeeded; without a
\* phone number an error is returned only when the email call failed.
C6_Urgent ==
    \A i \in Started :
        requests[i].Priority = "urgent" =>
            /\ Cardinality(CallsOf(i, "sms")) <= 1
            /\ CallsOf(i, "sms") # {} =>
                  (requests[i].RecipientPhone # "" /\ EmailSucceeded(i))
            /\ Returned(i) =>
                  /\ Cardinality(CallsOf(i, "email")) = 1
                  /\ (requests[i].RecipientPhone # "" /\ EmailSucceeded(i))
                        => CallsOf(i, "sms") # {}
                  /\ requests[i].RecipientPhone = "" =>
                        ((RetOf(i).err # NoError) <=> EmailFailed(i))

\* an urgent request of a type that is not critical, its SMS sent
C6_Witness ==
    \E i \in Started :
        /\ requests[i].Priority = "urgent"
        /\ requests[i].Type = "xyz"
        /\ requests[i].RecipientPhone # ""
        /\ Returned(i)
        /\ CallsOf(i, "sms") # {}

\* C7: no transport is called more than once for a request and no request is
\* dispatched or answered twice; a call that returned a response made exactly
\* one email transport call and at most one SMS transport call.
C7_NoRetry ==
    /\ \A a, b \in DOMAIN started : started[a] = started[b] => a = b
    /\ \A a, b \in DOMAIN returns : returns[a].req = returns[b].req => a = b
    /\ \A i \in Started :
          /\ Cardinality(CallsOf(i, "email")) <= 1
          /\ Cardinality(CallsOf(i, "sms")) <= 1
          /\ (Returned(i) /\ RetOf(i).response # Nil) =>
                Cardinality(CallsOf(i, "email")) = 1
    /\ \A k \in DOMAIN transport : transport[k].req \in Started

C7_Witness ==
    \E i, j \in Started :
        /\ Returned(i) /\ RetOf(i).response # Nil
        /\ Cardinality(CallsOf(i, "sms")) = 1
        /\ Returned(j) /\ EmailFailed(j)

-----------------------------------------------------------------------------
(* C8..C10: SendBulkNotifications *)

\* the responses of the calls that returned no error, in the order returned
RECURSIVE Successful(_)
Successful(rets) ==
    IF rets = <<>> THEN <<>>
    ELSE (IF Head(rets).err = NoError THEN <<Head(rets).response[1]>>
          ELSE <<>>) \o Successful(Tail(rets))

BulkReturned == Bulk /\ pc = "returned"

\* C8: SendBulkNotifications returns exactly the responses of the requests
\* whose dispatch succeeded, one each, in the relative order of their requests
\* in the input, and never more results than requests.
C8_BulkResults ==
    BulkReturned =>
        /\ result.responses = Successful(returns)
        /\ Len(result.responses) <= Len(requests)
        /\ \A a, b \in DOMAIN returns :
              a < b => returns[a].req < returns[b].req
        /\ \A a, b \in DOMAIN result.responses :
              a # b => result.responses[a] # result.responses[b]
        /\ \A i \in 1..Len(requests) :
              Returned(i) /\
              (RetOf(i).err = NoError <=>
                 \E a \in DOMAIN result.responses :
                    <<result.responses[a]>> = RetOf(i).response)

\* [ok, failing-email, ok2] yields the results of ok and ok2 in that order
C8_Witness ==
    /\ BulkReturned
    /\ Len(requests) = 3
    /\ EmailSucceeded(1) /\ EmailFailed(2) /\ EmailSucceeded(3)
    /\ result.responses = <<RetOf(1).response[1], RetOf(3).response[1]>>

\* C9: when SendBulkNotifications returns, every request of the input has had
\* its dispatch attempted exactly once, in input order, whatever errors the
\* earlier dispatches returned.
C9_AllAttempted ==
    BulkReturned =>
        /\ started = [k \in 1..Len(requests) |-> k]
        /\ \A i \in 1..Len(requests) :
              Returned(i) /\ Cardinality(CallsOf(i, "email")) = 1

C9_Witness ==
    /\ BulkReturned
    /\ Len(requests) = 3
    /\ EmailFailed(1)
    /\ RetOf(1).err # NoError
    /\ EmailSucceeded(2) /\ EmailFailed(3)

\* C10: in SendBulkNotifications a malformed request (an identifier that is
\* missing or does not parse) is dropped like any other per-item error: its
\* dispatch hands an error back to the loop, the batch goes on, and the call
\* returns with every request attempted.
C10_MalformedDropped ==
    /\ \A i \in Started :
          (Bulk /\ MustParsePanics(requests[i])
                /\ ~(pc = "SendNotification" /\ idx = i)) =>
              /\ pc # "panicked"
              /\ Returned(i)
              /\ RetOf(i).err # NoError
    /\ (Bulk /\ pc \in {"returned", "panicked"}) =>
          /\ pc = "returned"
          /\ Len(started) = Len(requests)


-----------------------------------------------------------------------------
(* C11, C12, C19: errors of the caller API, addressing of the transports *)

\* C11: a SendNotification call on a malformed request (an identifier that is
\* missing or does not parse) hands an error value back to its caller without
\* any transport call, and a SendNotification call never ends in any other way
\* than by returning a response or an error value.
C11_ValidationError ==
    /\ pc # "panicked"
    /\ \A i \in Started :
          (MustParsePanics(requests[i])
                /\ ~(pc = "SendNotification" /\ idx = i)) =>
              /\ Returned(i)
              /\ RetOf(i).err # NoError
              /\ RetOf(i).response = Nil
              /\ CallsOf(i, "email") = {} /\ CallsOf(i, "sms") = {}

\* C12: SendBulkNotifications ends, for every input sequence, by returning a
\* sequence of results and no error: the call never fails as a whole.
C12_BulkNeverFails ==
    (Bulk /\ pc \in {"returned", "panicked"}) =>
        /\ pc = "returned"
        /\ result.done
        /\ result.err = NoError

\* C19: every email transport call has the configured sender as its from
\* address and the recipientEmail of its request as its only destination;
\* every SMS transport call is addressed to the recipientPhone of its request.
C19_Addressing ==
    \A k \in DOMAIN transport :
        LET req == requests[transport[k].req] IN
        IF transport[k].channel = "email"
        THEN /\ transport[k].from = FromEmail
             /\ transport[k].to = <<req.RecipientEmail>>
        ELSE transport[k].to = <<req.RecipientPhone>>

\* a batch with two recipients, each reached by email and by SMS
C19_Witness ==
    /\ Bulk
    /\ \E i, j \in Started :
          /\ requests[i].RecipientEmail # requests[j].RecipientEmail
          /\ CallsOf(i, "email") # {} /\ CallsOf(i, "sms") # {}
          /\ CallsOf(j, "email") # {} /\ CallsOf(j, "sms") # {}


-----------------------------------------------------------------------------
(* C18: independence of the dispatches *)

\* what the dispatch of the request at position i has done is what its own
\* request and the outcome of its own email call determine
OwnDispatch(i) ==
    LET req == requests[i] IN
    IF MustParsePanics(req)
    THEN CallsOf(i, "email") = {} /\ CallsOf(i, "sms") = {}
    ELSE /\ Cardinality(CallsOf(i, "email")) = 1
         /\ Returned(i)
         /\ (RetOf(i).err = NoError) <=> EmailSucceeded(i)
         /\ (CallsOf(i, "sms") # {}) <=>
                (EmailSucceeded(i) /\ SMSAttempted(Route(req.Priority), req))

\* C18: dispatches are independent: once a call of SendNotification or of
\* SendBulkNotifications is over, the transport calls made for each request
\* and the result returned for it depend only on that request and on the
\* outcomes of its own transport calls, whatever the other requests are
C18_Independent ==
    pc \in {"returned", "panicked"} => \A i \in DOMAIN requests : OwnDispatch(i)

-----------------------------------------------------------------------------
(* Rendering: replaceVariables *)

\* most pieces a template given to replaceVariables is made of
MaxPieces == 3

Pieces == {"{{a}}", "{{b}}", "{{m}}", "{{", "}}", "{", "}", "a"}
FreeKeys == {"a", "b"}
FreeValues == {"", "x", "{{a}}", "{{b}}", "{"}

RECURSIVE Join(_)
Join(strs) == IF strs = <<>> THEN "" ELSE Head(strs) \o Join(Tail(strs))

FreeTemplates ==
    {"Hello {{missing}}"} \cup
    {Join(ps) : ps \in UNION {[1..n -> Pieces] : n \in 0..MaxPieces}}

\* map[string]string values
FreeMappings == UNION {[K -> FreeValues] : K \in SUBSET FreeKeys}

Min(S) == CHOOSE x \in S : \A y \in S : x <= y

\* start positions of the occurrences of old in s
Occurrences(s, old) ==
    {p \in 1..Len(s) :
        p + Len(old) - 1 <= Len(s) /\ SubSeq(s, p, p + Len(old) - 1) = old}

\* variant: only the first occurrence is replaced (strings.Replace(.., 1))
RECURSIVE ReplaceFrom_First(_, _, _, _)
ReplaceFrom_First(s, old, new, i) ==
    LET hits == {p \in Occurrences(s, old) : p >= i} IN
    IF hits = {} THEN SubSeq(s, i, Len(s))
    ELSE SubSeq(s, i, Min(hits) - 1) \o new
            \o SubSeq(s, Min(hits) + Len(old), Len(s))

\* strings.ReplaceAll on the rest of s from position i: the leftmost
\* occurrence is replaced and the search goes on behind it
RECURSIVE ReplaceFrom(_, _, _, _)
ReplaceFrom(s, old, new, i) ==
    LET hits == {p \in Occurrences(s, old) : p >= i} IN
    IF hits = {} THEN SubSeq(s, i, Len(s))
    ELSE SubSeq(s, i, Min(hits) - 1) \o new
            \o ReplaceFrom(s, old, new, Min(hits) + Len(old))

\* strings.ReplaceAll(s, old, new), old not empty
ReplaceAll(s, old, new) == ReplaceFrom(s, old, new, 1)

\* variant: single braces
Placeholder_Single(key) == "{" \o key \o "}"

\* placeholder := "{{" + key + "}}"
Placeholder(key) == "{{" \o key \o "}}"

\* replaceVariables with the keys ranged over in the given order
RECURSIVE replaceVariablesInOrder(_, _, _)
replaceVariablesInOrder(template, variables, order) ==
    IF order = <<>> THEN template
    ELSE replaceVariablesInOrder(
            ReplaceAll(template, Placeholder(Head(order)),
                       variables[Head(order)]),
            variables, Tail(order))

-----------------------------------------------------------------------------
(* C27: the convenience entry points *)

\* C27: SendPaymentNotification always dispatches type "payment_due" with
\* priority "medium", SendMaintenanceNotification type "maintenance_request"
\* with the maintenance request's priority; for the documented priorities
\* (low, medium, high, emergency) neither ever makes an SMS transport call,
\* whatever the recipient phone is
C27_NoSMS ==
    (entry \in Convenience /\ requests # <<>>) =>
        LET req == requests[1] IN
        /\ entry = "SendPaymentNotification" =>
              /\ req.Type = "payment_due"
              /\ req.Priority = "medium"
              /\ CallsOf(1, "sms") = {}
        /\ entry = "SendMaintenanceNotification" =>
              /\ req.Type = "maintenance_request"
              /\ ~isCriticalNotificationType(req.Type)
              /\ req.Priority \in MaintenancePriorities =>
                    CallsOf(1, "sms") = {}

C27_Witness ==
    /\ entry = "SendMaintenanceNotification"
    /\ pc = "returned"
    /\ requests[1].Priority = "high"
    /\ requests[1].RecipientPhone # ""
    /\ EmailSucceeded(1)
    /\ result.err = NoError
    /\ CallsOf(1, "sms") = {}

-----------------------------------------------------------------------------
(* Rendering: the templates *)

MaintenanceRequestSubject == "New Maintenance Request - {{title}}"

MaintenanceRequestHTMLBody ==
    "\n"
    \o "\t\t\t\t<!DOCTYPE html>\n"
    \o "\t\t\t\t<html>\n"
    \o "\t\t\t\t<head>\n"
    \o "\t\t\t\t\t<style>\n"
    \o "\t\t\t\t\t\tbody { font-family: Arial, sans-serif; line-height: 1.6; color: #333; }\n"
    \o "\t\t\t\t\t\t.container { max-width: 600px; margin: 0 auto; padding: 20px; }\n"
    \o "\t\t\t\t\t\t.header { background-color: #f8f9fa; padding: 20px; border-radius: 5px; }\n"
    \o "\t\t\t\t\t\t.content { padding: 20px; }\n"
    \o "\t\t\t\t\t\t.button { display: inline-block; padding: 10px 20px; background-color: #007bff; color: white; text-decoration: none; border-radius: 5px; }\n"
    \o "\t\t\t\t\t</style>\n"
    \o "\t\t\t\t</head>\n"
    \o "\t\t\t\t<body>\n"
    \o "\t\t\t\t\t<div class=\"container\">\n"
    \o "\t\t\t\t\t\t<div class=\"header\">\n"
    \o "\t\t\t\t\t\t\t<h2>Maintenance Request</h2>\n"
    \o "\t\t\t\t\t\t</div>\n"
    \o "\t\t\t\t\t\t<div class=\"content\">\n"
    \o "\t\t\t\t\t\t\t<p>Hello {{recipient_name}},</p>\n"
    \o "\t\t\t\t\t\t\t<p>A new maintenance request has been submitted:</p>\n"
    \o "\t\t\t\t\t\t\t<h3>{{title}}</h3>\n"
    \o "\t\t\t\t\t\t\t<p>{{message}}</p>\n"
    \o "\t\t\t\t\t\t\t<p><strong>Priority:</strong> {{priority}}</p>\n"
    \o "\t\t\t\t\t\t\t<p><strong>Category:</strong> {{category}}</p>\n"
    \o "\t\t\t\t\t\t\t<p><strong>Date:</strong> {{date}} at {{time}}</p>\n"
    \o "\t\t\t\t\t\t\t<p>Please review and take appropriate action.</p>\n"
    \o "\t\t\t\t\t\t</div>\n"
    \o "\t\t\t\t\t</div>\n"
    \o "\t\t\t\t</body>\n"
    \o "\t\t\t\t</html>"

MaintenanceRequestTextBody ==
    "\n"
    \o "Maintenance Request\n"
    \o "\n"
    \o "Hello {{recipient_name}},\n"
    \o "\n"
    \o "A new maintenance request has been submitted:\n"
    \o "\n"
    \o "{{title}}\n"
    \o "\n"
    \o "{{message}}\n"
    \o "\n"
    \o "Priority: {{priority}}\n"
    \o "Category: {{category}}\n"
    \o "Date: {{date}} at {{time}}\n"
    \o "\n"
    \o "Please review and take appropriate action."

PaymentDueSubject == "Payment Due Reminder"

PaymentDueHTMLBody ==
    "\n"
    \o "\t\t\t\t<!DOCTYPE html>\n"
    \o "\t\t\t\t<html>\n"
    \o "\t\t\t\t<head>\n"
    \o "\t\t\t\t\t<style>\n"
    \o "\t\t\t\t\t\tbody { font-family: Arial, sans-serif; line-height: 1.6; color: #333; }\n"
    \o "\t\t\t\t\t\t.container { max-width: 600px; margin: 0 auto; padding: 20px; }\n"
    \o "\t\t\t\t\t\t.header { background-color: #fff3cd; padding: 20px; border-radius: 5px; border: 1px solid #ffeaa7; }\n"
    \o "\t\t\t\t\t\t.content { padding: 20px; }\n"
    \o "\t\t\t\t\t\t.amount { font-size: 24px; font-weight: bold; color: #d63031; }\n"
    \o "\t\t\t\t\t</style>\n"
    \o "\t\t\t\t</head>\n"
    \o "\t\t\t\t<body>\n"
    \o "\t\t\t\t\t<div class=\"container\">\n"
    \o "\t\t\t\t\t\t<div class=\"header\">\n"
    \o "\t\t\t\t\t\t\t<h2>Payment Due Reminder</h2>\n"
    \o "\t\t\t\t\t\t</div>\n"
    \o "\t\t\t\t\t\t<div class=\"content\">\n"
    \o "\t\t\t\t\t\t\t<p>Hello {{recipient_name}},</p>\n"
    \o "\t\t\t\t\t\t\t<p>This is a friendly reminder that your payment is due:</p>\n"
    \o "\t\t\t\t\t\t\t<p class=\"amount\">Amount: ${{amount}}</p>\n"
    \o "\t\t\t\t\t\t\t<p><strong>Due Date:</strong> {{due_date}}</p>\n"
    \o "\t\t\t\t\t\t\t<p><strong>Property:</strong> {{property_name}}</p>\n"
    \o "\t\t\t\t\t\t\t<p>Please ensure your payment is submitted on time to avoid any late fees.</p>\n"
    \o "\t\t\t\t\t\t</div>\n"
    \o "\t\t\t\t\t</div>\n"
    \o "\t\t\t\t</body>\n"
    \o "\t\t\t\t</html>"

PaymentDueTextBody ==
    "\n"
    \o "Payment Due Reminder\n"
    \o "\n"
    \o "Hello {{recipient_name}},\n"
    \o "\n"
    \o "This is a friendly reminder that your payment is due:\n"
    \o "\n"
    \o "Amount: ${{amount}}\n"
    \o "Due Date: {{due_date}}\n"
    \o "Property: {{property_name}}\n"
    \o "\n"
    \o "Please ensure your payment is submitted on time to avoid any late fees."

GenericSubject == "{{title}}"

GenericHTMLBody ==
    "\n"
    \o "\t\t\t\t<!DOCTYPE html>\n"
    \o "\t\t\t\t<html>\n"
    \o "\t\t\t\t<head>\n"
    \o "\t\t\t\t\t<style>\n"
    \o "\t\t\t\t\t\tbody { font-family: Arial, sans-serif; line-height: 1.6; color: #333; }\n"
    \o "\t\t\t\t\t\t.container { max-width: 600px; margin: 0 auto; padding: 20px; }\n"
    \o "\t\t\t\t\t\t.header { background-color: #f8f9fa; padding: 20px; border-radius: 5px; }\n"
    \o "\t\t\t\t\t\t.content { padding: 20px; }\n"
    \o "\t\t\t\t\t</style>\n"
    \o "\t\t\t\t</head>\n"
    \o "\t\t\t\t<body>\n"
    \o "\t\t\t\t\t<div class=\"container\">\n"
    \o "\t\t\t\t\t\t<div class=\"header\">\n"
    \o "\t\t\t\t\t\t\t<h2>{{title}}</h2>\n"
    \o "\t\t\t\t\t\t</div>\n"
    \o "\t\t\t\t\t\t<div class=\"content\">\n"
    \o "\t\t\t\t\t\t\t<p>Hello {{recipient_name}},</p>\n"
    \o "\t\t\t\t\t\t\t<p>{{message}}</p>\n"
    \o "\t\t\t\t\t\t\t<p>Date: {{date}} at {{time}}</p>\n"
    \o "\t\t\t\t\t\t</div>\n"
    \o "\t\t\t\t\t</div>\n"
    \o "\t\t\t\t</body>\n"
    \o "\t\t\t\t</html>"

GenericTextBody ==
    "\n"
    \o "{{title}}\n"
    \o "\n"
    \o "Hello {{recipient_name}},\n"
    \o "\n"
    \o "{{message}}\n"
    \o "\n"
    \o "Date: {{date}} at {{time}}"

MaintenanceEmergencySMS == "URGENT: Emergency maintenance request at {{property_name}}. Please respond immediately."

PaymentOverdueSMS == "Payment overdue: ${{amount}} due for {{property_name}}. Please contact us immediately."

GenericSMS == "{{title}}: {{message}}"

\* the fields of the request the templates read, and the requests rendered
Titles == {"Leak in unit 4"}
Messages == {"Water under the sink"}
RecipientTypes == {"landlord", "tenant", "contractor"}
RenderTypes == Types
RenderRequests ==
    [Type : RenderTypes, Title : Titles, Message : Messages,
     RecipientType : RecipientTypes]

\* time.Now().Format("January 2, 2006") and time.Now().Format("3:04 PM")
NowDate == "November 3, 2026"
NowTime == "5:04 AM"

\* getEmailTemplate: the switch on notificationType
getEmailTemplateFor(notificationType, variables) ==
    CASE notificationType = "maintenance_request" ->
            [Subject |-> MaintenanceRequestSubject,
             HTMLBody |-> MaintenanceRequestHTMLBody,
             TextBody |-> MaintenanceRequestTextBody,
             Variables |-> variables]
      [] notificationType = "payment_due" ->
            [Subject |-> PaymentDueSubject,
             HTMLBody |-> PaymentDueHTMLBody,
             TextBody |-> PaymentDueTextBody,
             Variables |-> variables]
      [] OTHER ->
            [Subject |-> GenericSubject,
             HTMLBody |-> GenericHTMLBody,
             TextBody |-> GenericTextBody,
             Variables |-> variables]

\* getEmailTemplate: the base template variables, then the switch
getEmailTemplate(notificationType, req) ==
    getEmailTemplateFor(notificationType,
        [k \in {"recipient_name", "landlord_name", "date", "time"} |->
            CASE k = "recipient_name" -> req.RecipientType
              [] k = "landlord_name" -> "Property Management"
              [] k = "date" -> NowDate
              [] k = "time" -> NowTime])

\* variant: the type is lower-cased before the switch
getSMSTemplateFor_CaseFold(notificationType, variables) ==
    CASE ToLower(notificationType) = "maintenance_emergency" ->
            [Message |-> MaintenanceEmergencySMS, Variables |-> variables]
      [] notificationType = "payment_overdue" ->
            [Message |-> PaymentOverdueSMS, Variables |-> variables]
      [] OTHER -> [Message |-> GenericSMS, Variables |-> variables]

\* getSMSTemplate: the switch on notificationType
getSMSTemplateFor(notificationType, variables) ==
    CASE notificationType = "maintenance_emergency" ->
            [Message |-> MaintenanceEmergencySMS, Variables |-> variables]
      [] notificationType = "payment_overdue" ->
            [Message |-> PaymentOverdueSMS, Variables |-> variables]
      [] OTHER -> [Message |-> GenericSMS, Variables |-> variables]

\* variant: the variables also name the property
getSMSTemplate_WithProperty(notificationType, req) ==
    getSMSTemplateFor(notificationType,
        [k \in {"recipient_name", "property_name"} |->
            IF k = "recipient_name" THEN req.RecipientType ELSE "12 Elm St"])

\* getSMSTemplate: the variables, then the switch
getSMSTemplate(notificationType, req) ==
    getSMSTemplateFor(notificationType,
        [k \in {"recipient_name"} |-> req.RecipientType])

\* the strings sendEmailNotification has replaceVariables work on, in order
EmailStrings(template) ==
    <<template.Subject, template.HTMLBody, template.TextBody>>

\* the string sendSMSNotification has replaceVariables work on
SMSStrings(template) == <<template.Message>>

\* what is not running in the other specification
DispatchIdle ==
    /\ entry = "none"
    /\ requests = <<>>
    /\ idx = 1
    /\ handler = "none"
    /\ emailResp = Nil
    /\ transport = <<>>
    /\ started = <<>>
    /\ returns = <<>>
    /\ responses = <<>>
    /\ result = NoResult
    /\ uuids = 0

\* calls of replaceVariables(template, variables)
FreeJobs ==
    {[kind |-> "replaceVariables", req |-> NoRequest, pass |-> 1,
      template |-> <<t>>, variables |-> m, first |-> <<>>] :
        t \in FreeTemplates, m \in FreeMappings}

\* the rendering of sendEmailNotification and of sendSMSNotification for a
\* request, before the template is fetched
SendJobs ==
    {[kind |-> k, req |-> r, pass |-> 1, template |-> <<>>,
      variables |-> <<>>, first |-> <<>>] :
        k \in {"email", "sms"}, r \in RenderRequests}

RenderJobs == FreeJobs \cup SendJobs

RenderInit ==
    /\ DispatchIdle
    /\ job \in RenderJobs
    /\ out = job.template
    /\ part = 1
    /\ todo = DOMAIN job.variables
    /\ last = NoCall
    /\ handed = Nil
    /\ HttpIdle
    /\ pc = IF job.kind = "replaceVariables" THEN "replaceVariables"
            ELSE "getTemplate"

\* sendEmailNotification / sendSMSNotification fetch the template of the
\* request's type; replaceVariables is then called on its first string
getTemplate ==
    /\ pc = "getTemplate"
    /\ LET strs == IF job.kind = "email"
                   THEN EmailStrings(getEmailTemplate(job.req.Type, job.req))
                   ELSE SMSStrings(getSMSTemplate(job.req.Type, job.req))
           variables == IF job.kind = "email"
                        THEN getEmailTemplate(job.req.Type, job.req).Variables
                        ELSE getSMSTemplate(job.req.Type, job.req).Variables
       IN  /\ job' = [job EXCEPT !.template = strs, !.variables = variables]
           /\ out' = strs
           /\ todo' = DOMAIN variables
    /\ pc' = "replaceVariables"
    /\ UNCHANGED <<part, last, handed>>
    /\ UNCHANGED <<entry, requests, idx, handler, emailResp, transport,
                   started, returns, responses, result, uuids>>
    /\ UNCHANGED hvars

\* one iteration of the range loop of replaceVariables; the order in which a
\* Go map is ranged over is not specified
replaceVariables ==
    /\ pc = "replaceVariables"
    /\ todo # {}
    /\ \E key \in todo :
         LET value == job.variables[key] IN
         /\ out' = [out EXCEPT
                      ![part] = ReplaceAll(out[part], Placeholder(key), value)]
         /\ todo' = todo \ {key}
         /\ last' = [s |-> out[part], key |-> key, made |-> TRUE]
    /\ UNCHANGED <<job, part, handed, pc>>
    /\ UNCHANGED <<entry, requests, idx, handler, emailResp, transport,
                   started, returns, responses, result, uuids>>
    /\ UNCHANGED hvars

\* the range loop is over: replaceVariables returns; the caller goes on with
\* its next string or uses the strings it has
replaceVariablesReturn ==
    /\ pc = "replaceVariables"
    /\ todo = {}
    /\ IF part < Len(out)
       THEN /\ part' = part + 1
            /\ todo' = DOMAIN job.variables
            /\ UNCHANGED <<handed, pc>>
       ELSE /\ handed' = <<out>>
            /\ pc' = "rendered"
            /\ UNCHANGED <<part, todo>>
    /\ UNCHANGED <<job, out, last>>
    /\ UNCHANGED <<entry, requests, idx, handler, emailResp, transport,
                   started, returns, responses, result, uuids>>
    /\ UNCHANGED hvars

\* replaceVariables is called once more, on its own result with the same map
Rerender ==
    /\ pc = "rendered"
    /\ job.kind = "replaceVariables"
    /\ job.pass = 1
    /\ job' = [job EXCEPT !.pass = 2, !.first = out]
    /\ part' = 1
    /\ todo' = DOMAIN job.variables
    /\ last' = NoCall
    /\ handed' = Nil
    /\ pc' = "replaceVariables"
    /\ UNCHANGED out
    /\ UNCHANGED <<entry, requests, idx, handler, emailResp, transport,
                   started, returns, responses, result, uuids>>
    /\ UNCHANGED hvars

RenderNext ==
    \/ getTemplate
    \/ replaceVariables
    \/ replaceVariablesReturn
    \/ Rerender

RenderSpec == RenderInit /\ [][RenderNext]_<<vars, rvars>>

-----------------------------------------------------------------------------
(* C13..C15: replaceVariables as a function *)

Token(key) == "{{" \o key \o "}}"

\* s holds a {{...}} token: an opening "{{" with a closing "}}" behind it
HasToken(s) ==
    \E i, j \in 1..Len(s) :
        /\ j >= i + 2 /\ j + 1 <= Len(s)
        /\ SubSeq(s, i, i + 1) = "{{"
        /\ SubSeq(s, j, j + 1) = "}}"

CountOf(s, old) == Cardinality(Occurrences(s, old))

\* s with the text of every occurrence of old (none overlapping another)
\* exchanged for new and every other character kept
EveryOccurrenceReplaced(s, old, new) ==
    LET P == Occurrences(s, old)
        at(p) == IF p \in P THEN new
                 ELSE IF \E q \in P : q < p /\ p < q + Len(old) THEN ""
                 ELSE SubSeq(s, p, p)
    IN  Join([p \in 1..Len(s) |-> at(p)])

Orders(K) ==
    {o \in [1..Cardinality(K) -> K] :
        \A a, b \in DOMAIN o : o[a] = o[b] => a = b}

FreeJob == job.kind = "replaceVariables"

\* the string the running call of replaceVariables was given
Input == IF job.pass = 1 THEN job.template[1] ELSE job.first[1]

\* C13: replaceVariables replaces every occurrence of {{key}} for each key of
\* the map (each ReplaceAll call exchanges every occurrence in the string it
\* is given and keeps the rest), and leaves every placeholder of a key that is
\* not in the map in the output: with an empty map the template comes back
\* unchanged ("Hello {{missing}}" included).
C13_Replace ==
    FreeJob =>
        /\ last.made =>
              out[1] = EveryOccurrenceReplaced(last.s, Token(last.key),
                                               job.variables[last.key])
        /\ \A m \in {"a", "b", "m", "missing"} \ DOMAIN job.variables :
              CountOf(out[1], Token(m)) >= CountOf(Input, Token(m))
        /\ DOMAIN job.variables = {} => out[1] = Input
        /\ (Input = "Hello {{missing}}" /\ DOMAIN job.variables = {}
              /\ pc = "rendered") => handed = <<(<<"Hello {{missing}}">>)>>

C13_Witness ==
    /\ FreeJob /\ job.pass = 1 /\ pc = "rendered"
    /\ job.template[1] = "{{a}}{{m}}{{a}}"
    /\ out[1] = "x{{m}}x"

\* C14: the result of replaceVariables does not depend on the order in which
\* the keys of the map are ranged over: whatever the order taken, the result
\* is the one every order of the keys gives.
C14_OrderIndependent ==
    (FreeJob /\ job.pass = 1 /\ pc = "rendered") =>
        \A o \in Orders(DOMAIN job.variables) :
            out[1] = replaceVariablesInOrder(job.template[1], job.variables, o)

\* C15: a string without any {{...}} token comes back from replaceVariables
\* unchanged, whatever the map; so a second call on a result that has no
\* token left returns that result.
C15_Idempotent ==
    (FreeJob /\ ~HasToken(Input)) => out[1] = Input

C15_Witness ==
    /\ FreeJob /\ job.pass = 2 /\ pc = "rendered"
    /\ job.template[1] = "{{a}}{{b}}}"
    /\ job.first[1] = "x{}"
    /\ out[1] = "x{}"

-----------------------------------------------------------------------------
(* C16, C17: the templates of a request *)

UniversalKeys == {"title", "message", "recipient_name", "date", "time"}

Contains(s, sub) == Occurrences(s, sub) # {}

\* the rendering of a request's email or SMS is over: its strings are the
\* ones put into the SES / SNS input
Handed == pc = "rendered" /\ job.kind \in {"email", "sms"}

GenericSelected ==
    \/ job.kind = "email" /\
       job.template = <<GenericSubject, GenericHTMLBody, GenericTextBody>>
    \/ job.kind = "sms" /\ job.template = <<GenericSMS>>

\* C16: for every request the mapping used for substitution holds title,
\* message, recipient_name, date and time, title and message being the
\* request's; the generic subject, bodies and SMS message handed to the
\* transports hold the request's title and message and no unresolved
\* {{title}} or {{message}}
C16_RequestVariables ==
    Handed =>
        /\ UniversalKeys \subseteq DOMAIN job.variables
        /\ job.variables["title"] = job.req.Title
        /\ job.variables["message"] = job.req.Message
        /\ GenericSelected =>
             \A i \in 1..Len(handed[1]) :
                /\ ~Contains(handed[1][i], Token("title"))
                /\ ~Contains(handed[1][i], Token("message"))
                /\ Contains(handed[1][i], job.req.Title)

KnownEmailTypes == {"maintenance_request", "payment_due"}
KnownSMSTypes == {"maintenance_emergency", "payment_overdue"}

\* C17: template selection is by exact match on the type: a type outside the
\* known types of a channel, the empty string and a differently cased known
\* type included, gets that channel's generic template, and a known type
\* gets its own
C17_GenericFallback ==
    (pc \in {"replaceVariables", "rendered"} /\ job.kind \in {"email", "sms"}) =>
        /\ job.kind = "email" =>
             (job.req.Type \notin KnownEmailTypes <=> GenericSelected)
        /\ job.kind = "sms" =>
             (job.req.Type \notin KnownSMSTypes <=> GenericSelected)

C17_Witness ==
    /\ Handed
    /\ job.kind = "sms"
    /\ job.req.Type = ""
    /\ job.template = <<GenericSMS>>
    /\ handed = <<(<<GenericSMS>>)>>

-----------------------------------------------------------------------------
(* HTTP: ValidateToken *)

HasPrefix(s, prefix) ==
    Len(s) >= Len(prefix) /\ SubSeq(s, 1, Len(prefix)) = prefix

TrimPrefix(s, prefix) ==
    IF HasPrefix(s, prefix) THEN SubSeq(s, Len(prefix) + 1, Len(s)) ELSE s

\* values of a jwt.MapClaims entry
Str(s) == [type |-> "string", s |-> s]
Num(n) == [type |-> "float64", n |-> n]

\* time.Now() of the validation, in seconds
Now == 2

LandlordClaims ==
    [user_id |-> Str("u1"), user_type |-> Str("landlord"),
     landlord_id |-> Str(ValidUUID1), exp |-> Num(3)]

TenantClaims ==
    [user_id |-> Str("u2"), user_type |-> Str("tenant"),
     landlord_id |-> Str(ValidUUID2), exp |-> Num(3)]

\* a user without landlord account, and one whose landlord id is spelled in
\* upper case
ContractorClaims ==
    [user_id |-> Str("u3"), user_type |-> Str("contractor"), exp |-> Num(3)]

UpperClaims == [LandlordClaims EXCEPT !.landlord_id = Str(UpperUUID1)]

Without(claims, key) == [k \in DOMAIN claims \ {key} |-> claims[k]]

\* a token that does not say what the user is
UntypedClaims == Without(LandlordClaims, "user_type")

Malformed == [form |-> FALSE, alg |-> "", sig |-> FALSE, claims |-> <<>>]

Signed(alg, sig, claims) ==
    [form |-> TRUE, alg |-> alg, sig |-> sig, claims |-> claims]

\* the token strings a request may carry, and what jwt.Parse finds in each:
\* whether it is a well-formed JWT, its alg, whether its signature verifies
\* under config.JWT.SecretKey, and its claims
TokenStrings ==
    {"", "garbage", "landlord", "tenant", "contractor", "upper", "expired",
     "untyped", "expiring", "noexp", "strexp", "rs256", "none", "forged"}

jwtDecode(tokenString) ==
    CASE tokenString = "landlord" -> Signed("HS256", TRUE, LandlordClaims)
      [] tokenString = "tenant" -> Signed("HS256", TRUE, TenantClaims)
      [] tokenString = "contractor" -> Signed("HS256", TRUE, ContractorClaims)
      [] tokenString = "upper" -> Signed("HS256", TRUE, UpperClaims)
      [] tokenString = "untyped" -> Signed("HS256", TRUE, UntypedClaims)
      [] tokenString = "expired" ->
            Signed("HS256", TRUE, [LandlordClaims EXCEPT !.exp = Num(1)])
      [] tokenString = "expiring" ->
            Signed("HS256", TRUE, [LandlordClaims EXCEPT !.exp = Num(Now)])
      [] tokenString = "noexp" ->
            Signed("HS256", TRUE, Without(LandlordClaims, "exp"))
      [] tokenString = "strexp" ->
            Signed("HS256", TRUE, [LandlordClaims EXCEPT !.exp = Str("soon")])
      [] tokenString = "rs256" -> Signed("RS256", TRUE, LandlordClaims)
      [] tokenString = "none" -> Signed("none", TRUE, LandlordClaims)
      [] tokenString = "forged" -> Signed("HS256", FALSE, LandlordClaims)
      [] OTHER -> Malformed

HMACMethods == {"HS256", "HS384", "HS512"}

\* variant: the key function hands out the key whatever the signing method
jwtParse_AnyMethod(tokenString) ==
    LET t == jwtDecode(tokenString) IN
    IF ~t.form THEN "token is malformed"
    ELSE IF ~t.sig THEN "signature is invalid"
    ELSE IF "exp" \notin DOMAIN t.claims THEN ""
    ELSE IF t.claims.exp.type # "float64" THEN "invalid type for claim"
    ELSE IF t.claims.exp.n <= Now THEN "token is expired"
    ELSE ""

\* jwt.Parse with the key function of ValidateToken: the error it returns
\* ("" for none)
jwtParse(tokenString) ==
    LET t == jwtDecode(tokenString) IN
    IF ~t.form THEN "token is malformed"
    ELSE IF t.alg \notin HMACMethods THEN "unexpected signing method"
    ELSE IF ~t.sig THEN "signature is invalid"
    ELSE IF "exp" \notin DOMAIN t.claims THEN ""
    ELSE IF t.claims.exp.type # "float64" THEN "invalid type for claim"
    ELSE IF t.claims.exp.n <= Now THEN "token is expired"
    ELSE ""

\* claims[key].(string) with the ok result dropped
AsString(claims, key) ==
    IF key \in DOMAIN claims /\ claims[key].type = "string"
    THEN claims[key].s ELSE ""

\* AuthService.ValidateToken: what the call ends with. The type assertion
\* claims["exp"].(float64) panics when the claim is missing
ValidateToken(tokenString) ==
    LET e == jwtParse(tokenString)
        claims == jwtDecode(tokenString).claims
        landlordID == AsString(claims, "landlord_id")
    IN  IF e # ""
        THEN [kind |-> "error", claims |-> Nil,
              err |-> Wrap("failed to parse token", <<e>>)]
        ELSE IF "exp" \notin DOMAIN claims \/ claims.exp.type # "float64"
        THEN [kind |-> "panic", claims |-> Nil, err |-> NoError]
        ELSE [kind |-> "claims",
              claims |-> <<[UserID |-> AsString(claims, "user_id"),
                            UserType |-> AsString(claims, "user_type"),
                            LandlordID |->
                                IF landlordID # "" /\ ParsesAsUUID(landlordID)
                                THEN <<UUIDString(landlordID)>> ELSE Nil,
                            ExpiresAt |-> claims.exp.n]>>,
              err |-> NoError]

-----------------------------------------------------------------------------
(* HTTP: the routes of NewRouter and the handler chain *)

\* gin.Default() installs Logger and Recovery; NewRouter adds the two below
EngineHandlers ==
    <<"Logger", "Recovery", "corsMiddleware", "requestLoggingMiddleware">>

\* the groups that use RequireLandlordOrTenant
SharedGroups == {"shared", "maintenance", "payments", "properties"}

\* variant: the files group is left without AuthMiddleware
GroupHandlers_OpenFiles(group) ==
    CASE group \in {"authProtected", "ai"} ->
            EngineHandlers \o <<"AuthMiddleware">>
      [] group = "landlord" ->
            EngineHandlers \o <<"AuthMiddleware", "RequireLandlord">>
      [] group = "tenant" ->
            EngineHandlers \o <<"AuthMiddleware", "RequireTenant">>
      [] group \in SharedGroups ->
            EngineHandlers \o <<"AuthMiddleware", "RequireLandlordOrTenant">>
      [] OTHER -> EngineHandlers

\* the middleware of a router group at the time its routes are registered
GroupHandlers(group) ==
    CASE group \in {"authProtected", "ai", "files"} ->
            EngineHandlers \o <<"AuthMiddleware">>
      [] group = "landlord" ->
            EngineHandlers \o <<"AuthMiddleware", "RequireLandlord">>
      [] group = "tenant" ->
            EngineHandlers \o <<"AuthMiddleware", "RequireTenant">>
      [] group \in SharedGroups ->
            EngineHandlers \o <<"AuthMiddleware", "RequireLandlordOrTenant">>
      [] OTHER -> EngineHandlers

Route4(method, path, group, h) ==
    [Method |-> method, Path |-> path, group |-> group, handler |-> h]

\* the routes NewRouter registers
Routes ==
    {Route4("GET", "/api/v1/health", "v1", "healthCheck"),
     Route4("POST", "/api/v1/auth/signup", "auth", "SignUp"),
     Route4("POST", "/api/v1/auth/confirm", "auth", "ConfirmSignUp"),
     Route4("POST", "/api/v1/auth/signin", "auth", "SignIn"),
     Route4("POST", "/api/v1/auth/refresh", "auth", "RefreshToken"),
     Route4("POST", "/api/v1/auth/signout", "authProtected", "SignOut"),
     Route4("GET", "/api/v1/auth/profile", "authProtected", "GetProfile"),
     Route4("POST", "/api/v1/ai/query", "ai", "QueryAI"),
     Route4("GET", "/api/v1/ai/tips", "ai", "GetPropertyManagementTips"),
     Route4("GET", "/api/v1/ai/history", "ai", "GetAIChatHistory"),
     Route4("GET", "/api/v1/ai/analytics", "ai", "GetAIAnalytics"),
     Route4("POST", "/api/v1/files/upload", "files", "UploadFile"),
     Route4("DELETE", "/api/v1/files/delete", "files", "DeleteFile"),
     Route4("GET", "/api/v1/files/list", "files", "ListFiles"),
     Route4("GET", "/api/v1/files/signed-url", "files", "GetSignedURL"),
     Route4("GET", "/api/v1/files/metadata", "files", "GetFileMetadata"),
     Route4("GET", "/swagger/*any", "engine", "swaggerHandler"),
     Route4("GET", "/", "engine", "root")}

\* gin's matching of a request to a registered route
Matches(route, method, path) ==
    /\ route.Method = method
    /\ IF route.Path = "/swagger/*any"
       THEN HasPrefix(path, "/swagger/")
       ELSE route.Path = path

Matched(req) == {r \in Routes : Matches(r, req.Method, req.Path)}

\* the chain gin runs for a request: the group's middleware and the route's
\* handler, or the engine's middleware alone when no route matches
ChainOf(req) ==
    IF Matched(req) = {} THEN EngineHandlers
    ELSE LET r == CHOOSE r \in Matched(req) : TRUE
         IN  GroupHandlers(r.group) \o <<r.handler>>

RouteHandlers == {r.handler : r \in Routes}

Methods == {"GET", "POST", "DELETE", "OPTIONS"}

Paths ==
    ({r.Path : r \in Routes} \ {"/swagger/*any"})
        \cup {"/swagger/index.html", "/api/v1/landlord/dashboard"}

Authorizations ==
    {"", "Basic dXNlcjpwdw==", "bearer landlord", "landlord"}
        \cup {"Bearer " \o t : t \in TokenStrings}

\* time.Now().Format("20060102-150405") of generateFileKey
KeyTimestamp == "20261103-050400"

\* keys of objects in the bucket, as generateFileKey made them
FileKey1 == ValidUUID1 \o "/document/e1/a-" \o KeyTimestamp \o ".pdf"
FileKey2 == ValidUUID2 \o "/document/e1/b-" \o KeyTimestamp \o ".pdf"

LandlordIDParams == {"", ValidUUID1, ValidUUID2, UpperUUID1}
FileKeyParams == {"", FileKey1, FileKey2}

\* the form fields, query parameters or JSON fields the handler of a path
\* reads
ParamsFor(path) ==
    CASE path = "/api/v1/files/upload" ->
            {[NoParams EXCEPT !.landlord_id = l, !.category = c,
                              !.entity_id = e, !.file = f] :
                l \in LandlordIDParams, c \in {"", "document"},
                e \in {"", "e1"}, f \in BOOLEAN}
      [] path = "/api/v1/files/delete" ->
            {[NoParams EXCEPT !.landlord_id = l, !.file_key = k] :
                l \in LandlordIDParams, k \in FileKeyParams}
      [] path = "/api/v1/files/list" ->
            {[NoParams EXCEPT !.landlord_id = l, !.category = c,
                              !.entity_id = e] :
                l \in LandlordIDParams, c \in {"", "document"},
                e \in {"", "e1"}}
      [] path = "/api/v1/files/signed-url" ->
            {[NoParams EXCEPT !.file_key = k, !.expires = x] :
                k \in FileKeyParams, x \in {"", "60", "0", "abc"}}
      [] path = "/api/v1/files/metadata" ->
            {[NoParams EXCEPT !.file_key = k] : k \in FileKeyParams}
      [] OTHER -> {NoParams}

HttpRequests ==
    UNION {{[Method |-> m, Path |-> path, Authorization |-> a, Params |-> q] :
                m \in Methods, a \in Authorizations, q \in ParamsFor(path)} :
           path \in Paths}

RenderIdle ==
    /\ job = NoJob
    /\ out = <<>>
    /\ part = 1
    /\ todo = {}
    /\ last = NoCall
    /\ handed = Nil

HttpInit ==
    /\ DispatchIdle
    /\ RenderIdle
    /\ httpReq \in HttpRequests
    /\ handlers = <<>>
    /\ index = 1
    /\ aborted = FALSE
    /\ status = 0
    /\ Keys = Nil
    /\ ran = <<>>
    /\ body = Nil
    /\ s3 = <<>>
    /\ validated = Nil
    /\ pc = "ServeHTTP"

\* the handler at c.index is the one to run
Running(name) ==
    /\ pc = "Next"
    /\ ~aborted
    /\ index <= Len(handlers)
    /\ handlers[index] = name

\* gin.Engine.ServeHTTP: the chain of the request is looked up and started
ServeHTTP ==
    /\ pc = "ServeHTTP"
    /\ handlers' = ChainOf(httpReq)
    /\ pc' = "Next"
    /\ UNCHANGED <<httpReq, index, aborted, status, Keys, ran>>
    /\ UNCHANGED <<entry, requests, idx, handler, emailResp, transport,
                   started, returns, responses, result, uuids>>
    /\ UNCHANGED rvars
    /\ UNCHANGED <<body, s3, validated>>

\* gin's Logger and Recovery, requestLoggingMiddleware: on to the next
ginMiddleware ==
    /\ \E name \in {"Logger", "Recovery", "requestLoggingMiddleware"} :
          Running(name)
    /\ index' = index + 1
    /\ UNCHANGED <<httpReq, handlers, aborted, status, Keys, ran, pc>>
    /\ UNCHANGED <<entry, requests, idx, handler, emailResp, transport,
                   started, returns, responses, result, uuids>>
    /\ UNCHANGED rvars
    /\ UNCHANGED <<body, s3, validated>>

\* corsMiddleware: an OPTIONS request is answered 204 and the chain aborted
corsMiddleware ==
    /\ Running("corsMiddleware")
    /\ IF httpReq.Method = "OPTIONS"
       THEN /\ status' = 204
            /\ aborted' = TRUE
            /\ UNCHANGED index
       ELSE /\ index' = index + 1
            /\ UNCHANGED <<status, aborted>>
    /\ UNCHANGED <<httpReq, handlers, Keys, ran, pc>>
    /\ UNCHANGED <<entry, requests, idx, handler, emailResp, transport,
                   started, returns, responses, result, uuids>>
    /\ UNCHANGED rvars
    /\ UNCHANGED <<body, s3, validated>>

\* a panic below gin's Recovery is recovered by it: 500, chain aborted
Recovered == \E k \in 1..(index - 1) : handlers[k] = "Recovery"

\* middleware.AuthMiddleware
AuthMiddleware ==
    /\ Running("AuthMiddleware")
    /\ LET authHeader == httpReq.Authorization
           token == TrimPrefix(authHeader, "Bearer ")
           res == ValidateToken(token)
       IN  IF authHeader = "" \/ ~HasPrefix(authHeader, "Bearer ")
              \/ res.kind = "error"
           THEN /\ status' = 401
                /\ aborted' = TRUE
                /\ UNCHANGED <<index, Keys, pc>>
           ELSE IF res.kind = "panic"
           THEN IF Recovered
                THEN /\ status' = 500
                     /\ aborted' = TRUE
                     /\ UNCHANGED <<index, Keys, pc>>
                ELSE /\ pc' = "panicked"
                     /\ UNCHANGED <<index, Keys, status, aborted>>
           ELSE /\ Keys' = res.claims
                /\ index' = index + 1
                /\ UNCHANGED <<status, aborted, pc>>
    /\ validated' =
          IF httpReq.Authorization = ""
             \/ ~HasPrefix(httpReq.Authorization, "Bearer ")
          THEN validated
          ELSE LET token == TrimPrefix(httpReq.Authorization, "Bearer ")
               IN  <<[tokenString |-> token, ret |-> ValidateToken(token)]>>
    /\ UNCHANGED <<httpReq, handlers, ran>>
    /\ UNCHANGED <<entry, requests, idx, handler, emailResp, transport,
                   started, returns, responses, result, uuids>>
    /\ UNCHANGED rvars
    /\ UNCHANGED <<body, s3>>

\* the handlers of the /files group
FileHandlers ==
    {"UploadFile", "DeleteFile", "ListFiles", "GetSignedURL",
     "GetFileMetadata"}

\* the dynamic type of the value AuthMiddleware stores under UserClaimsKey
ClaimsType == "*domain.UserClaims"

\* middleware.GetUserClaimsFromContext
GetUserClaimsFromContext(keys) ==
    IF keys = Nil \/ ClaimsType # "*domain.UserClaims"
    THEN [claims |-> Nil, exists |-> FALSE]
    ELSE [claims |-> keys, exists |-> TRUE]

ErrorResponse(error) == <<[Error |-> error]>>

\* the handler called name returns after ctx.JSON(code, payload), having
\* made the S3Service calls listed
Respond(name, code, payload, calls) ==
    /\ ran' = Append(ran, name)
    /\ status' = code
    /\ body' = payload
    /\ s3' = s3 \o calls
    /\ index' = index + 1
    /\ UNCHANGED <<httpReq, handlers, aborted, Keys, pc, validated>>

\* the handler called name panics before it writes anything
Panics(name) ==
    /\ ran' = Append(ran, name)
    /\ IF Recovered
       THEN /\ status' = 500
            /\ aborted' = TRUE
            /\ UNCHANGED pc
       ELSE /\ pc' = "panicked"
            /\ UNCHANGED <<status, aborted>>
    /\ UNCHANGED <<httpReq, handlers, index, Keys, body, s3, validated>>

\* AuthController.GetProfile: the value found under "user_claims" is
\* asserted to be a map[string]interface{}
GetProfile ==
    /\ Running("GetProfile")
    /\ IF Keys = Nil
       THEN Respond("GetProfile", 401,
                    ErrorResponse("User not authenticated"), <<>>)
       ELSE IF ClaimsType # "map[string]interface {}"
       THEN Panics("GetProfile")
       ELSE Respond("GetProfile", 200,
                    <<[UserID |-> Keys[1].UserID,
                       UserType |-> Keys[1].UserType]>>, <<>>)
    /\ UNCHANGED <<entry, requests, idx, handler, emailResp, transport,
                   started, returns, responses, result, uuids>>
    /\ UNCHANGED rvars

\* filepath.Ext and strings.TrimSuffix of generateFileKey
Ext(filename) == IF filename = "a.pdf" THEN ".pdf" ELSE ""
BaseName(filename) == IF filename = "a.pdf" THEN "a" ELSE filename

\* S3Service.generateFileKey
generateFileKey(landlordID, category, entityID, filename) ==
    landlordID \o "/" \o category \o "/" \o entityID \o "/"
        \o BaseName(filename) \o "-" \o KeyTimestamp \o Ext(filename)

\* a call of an S3Service method: the landlord id it was given (none for
\* the methods that take a key only) and the key or prefix it uses
S3Call(op, landlordID, key) ==
    [op |-> op, LandlordID |-> landlordID, Key |-> key]

\* variant: only the presence of a landlord id in the claims is checked
AccessDenied_AnyLandlord(userClaims, landlordID) ==
    userClaims.LandlordID = Nil

\* the check the upload, delete and list handlers make on the landlord id
AccessDenied(userClaims, landlordID) ==
    userClaims.LandlordID = Nil \/ userClaims.LandlordID[1] # landlordID

\* S3Controller.UploadFile
UploadFile ==
    /\ Running("UploadFile")
    /\ LET uc == GetUserClaimsFromContext(Keys)
           q == httpReq.Params
       IN  IF ~uc.exists
           THEN Respond("UploadFile", 401,
                        ErrorResponse("User not authenticated"), <<>>)
           ELSE IF ~q.file
           THEN Respond("UploadFile", 400,
                        ErrorResponse("File upload failed"), <<>>)
           ELSE IF q.landlord_id = "" \/ q.category = "" \/ q.entity_id = ""
           THEN Respond("UploadFile", 400,
                        ErrorResponse("Missing required fields"), <<>>)
           ELSE IF AccessDenied(uc.claims[1], q.landlord_id)
           THEN Respond("UploadFile", 403,
                        ErrorResponse("Access denied"), <<>>)
           ELSE LET key == generateFileKey(q.landlord_id, q.category,
                                           q.entity_id, "a.pdf")
                    call == S3Call("UploadFile", q.landlord_id, key)
                IN  \/ Respond("UploadFile", 500,
                               ErrorResponse("File upload failed"), <<call>>)
                    \/ Respond("UploadFile", 200,
                               <<[FileKey |-> key]>>, <<call>>)
    /\ UNCHANGED <<entry, requests, idx, handler, emailResp, transport,
                   started, returns, responses, result, uuids>>
    /\ UNCHANGED rvars

\* S3Controller.DeleteFile; binding:"required" makes ShouldBindJSON fail on
\* an empty file_key or landlord_id
DeleteFile ==
    /\ Running("DeleteFile")
    /\ LET uc == GetUserClaimsFromContext(Keys)
           req == httpReq.Params
       IN  IF ~uc.exists
           THEN Respond("DeleteFile", 401,
                        ErrorResponse("User not authenticated"), <<>>)
           ELSE IF req.file_key = "" \/ req.landlord_id = ""
           THEN Respond("DeleteFile", 400,
                        ErrorResponse("Invalid request data"), <<>>)
           ELSE IF AccessDenied(uc.claims[1], req.landlord_id)
           THEN Respond("DeleteFile", 403,
                        ErrorResponse("Access denied"), <<>>)
           ELSE LET call == S3Call("DeleteFile", req.landlord_id,
                                   req.file_key)
                IN  \/ Respond("DeleteFile", 500,
                               ErrorResponse("File deletion failed"),
                               <<call>>)
                    \/ Respond("DeleteFile", 200,
                               <<[Message |-> "File deleted successfully"]>>,
                               <<call>>)
    /\ UNCHANGED <<entry, requests, idx, handler, emailResp, transport,
                   started, returns, responses, result, uuids>>
    /\ UNCHANGED rvars

\* S3Controller.ListFiles
ListFiles ==
    /\ Running("ListFiles")
    /\ LET uc == GetUserClaimsFromContext(Keys)
           q == httpReq.Params
       IN  IF ~uc.exists
           THEN Respond("ListFiles", 401,
                        ErrorResponse("User not authenticated"), <<>>)
           ELSE IF q.landlord_id = "" \/ q.category = "" \/ q.entity_id = ""
           THEN Respond("ListFiles", 400,
                        ErrorResponse("Missing required parameters"), <<>>)
           ELSE IF AccessDenied(uc.claims[1], q.landlord_id)
           THEN Respond("ListFiles", 403,
                        ErrorResponse("Access denied"), <<>>)
           ELSE LET prefix == generateFileKey(q.landlord_id, q.category,
                                              q.entity_id, "")
                    call == S3Call("ListFiles", q.landlord_id, prefix)
                IN  \/ Respond("ListFiles", 500,
                               ErrorResponse("Failed to list files"),
                               <<call>>)
                    \/ Respond("ListFiles", 200,
                               <<[Prefix |-> prefix]>>, <<call>>)
    /\ UNCHANGED <<entry, requests, idx, handler, emailResp, transport,
                   started, returns, responses, result, uuids>>
    /\ UNCHANGED rvars

\* strconv.Atoi on the values of the expires parameter
Atoi(str) ==
    CASE str = "3600" -> [n |-> 3600, ok |-> TRUE]
      [] str = "60" -> [n |-> 60, ok |-> TRUE]
      [] str = "0" -> [n |-> 0, ok |-> TRUE]
      [] OTHER -> [n |-> 0, ok |-> FALSE]

\* expires of GetSignedURL: ctx.DefaultQuery("expires", "3600"), parsed
Expires(q) ==
    LET expiresStr == IF q.expires = "" THEN "3600" ELSE q.expires
        parsed == Atoi(expiresStr)
    IN  IF parsed.ok /\ parsed.n > 0 THEN parsed.n ELSE 3600

\* S3Controller.GetSignedURL
GetSignedURL ==
    /\ Running("GetSignedURL")
    /\ LET uc == GetUserClaimsFromContext(Keys)
           q == httpReq.Params
       IN  IF ~uc.exists
           THEN Respond("GetSignedURL", 401,
                        ErrorResponse("User not authenticated"), <<>>)
           ELSE IF q.file_key = ""
           THEN Respond("GetSignedURL", 400,
                        ErrorResponse("Missing file_key parameter"), <<>>)
           ELSE LET call == S3Call("GetSignedURL", "", q.file_key)
                IN  \/ Respond("GetSignedURL", 500,
                               ErrorResponse("Failed to generate signed URL"),
                               <<call>>)
                    \/ Respond("GetSignedURL", 200,
                               <<[ExpiresIn |-> Expires(q),
                                  FileKey |-> q.file_key]>>, <<call>>)
    /\ UNCHANGED <<entry, requests, idx, handler, emailResp, transport,
                   started, returns, responses, result, uuids>>
    /\ UNCHANGED rvars

\* S3Controller.GetFileMetadata
GetFileMetadata ==
    /\ Running("GetFileMetadata")
    /\ LET uc == GetUserClaimsFromContext(Keys)
           q == httpReq.Params
       IN  IF ~uc.exists
           THEN Respond("GetFileMetadata", 401,
                        ErrorResponse("User not authenticated"), <<>>)
           ELSE IF q.file_key = ""
           THEN Respond("GetFileMetadata", 400,
                        ErrorResponse("Missing file_key parameter"), <<>>)
           ELSE LET call == S3Call("GetFileMetadata", "", q.file_key)
                IN  \/ Respond("GetFileMetadata", 500,
                               ErrorResponse("Failed to get file metadata"),
                               <<call>>)
                    \/ Respond("GetFileMetadata", 200,
                               <<[Metadata |-> q.file_key]>>, <<call>>)
    /\ UNCHANGED <<entry, requests, idx, handler, emailResp, transport,
                   started, returns, responses, result, uuids>>
    /\ UNCHANGED rvars

\* the handler of the matched route runs and writes its response
RouteHandler ==
    /\ \E name \in RouteHandlers \ (FileHandlers \cup {"GetProfile"}) :
          /\ Running(name)
          /\ ran' = Append(ran, name)
          /\ \E code \in IF name \in {"healthCheck", "root", "swaggerHandler"}
                         THEN {200}
                         ELSE {200, 400, 401, 403, 500} :
                status' = code
    /\ index' = index + 1
    /\ UNCHANGED <<httpReq, handlers, aborted, Keys, pc>>
    /\ UNCHANGED <<entry, requests, idx, handler, emailResp, transport,
                   started, returns, responses, result, uuids>>
    /\ UNCHANGED rvars
    /\ UNCHANGED <<body, s3, validated>>

\* the chain is over or was aborted: 404 when nothing was written
Served ==
    /\ pc = "Next"
    /\ aborted \/ index > Len(handlers)
    /\ status' = IF status = 0 THEN 404 ELSE status
    /\ pc' = "served"
    /\ UNCHANGED <<httpReq, handlers, index, aborted, Keys, ran>>
    /\ UNCHANGED <<entry, requests, idx, handler, emailResp, transport,
                   started, returns, responses, result, uuids>>
    /\ UNCHANGED rvars
    /\ UNCHANGED <<body, s3, validated>>

-----------------------------------------------------------------------------
(* HTTP: the role middlewares *)

\* variant: every user type is let through
WrongUserType_Never(userType, allowed) == FALSE

\* the comparison of userClaims.UserType the role middlewares make
WrongUserType(userType, allowed) == userType \notin allowed

\* the body the three role middlewares have in common: 401 without claims
\* in the context, 403 for another user type, c.Next() otherwise
RequireUserType(name, allowed) ==
    /\ Running(name)
    /\ LET uc == GetUserClaimsFromContext(Keys) IN
       IF ~uc.exists
       THEN /\ status' = 401
            /\ body' = ErrorResponse("User not authenticated")
            /\ aborted' = TRUE
            /\ UNCHANGED index
       ELSE IF WrongUserType(uc.claims[1].UserType, allowed)
       THEN /\ status' = 403
            /\ body' = ErrorResponse("Access denied")
            /\ aborted' = TRUE
            /\ UNCHANGED index
       ELSE /\ index' = index + 1
            /\ UNCHANGED <<status, body, aborted>>
    /\ UNCHANGED <<httpReq, handlers, Keys, ran, s3, validated, pc>>
    /\ UNCHANGED <<entry, requests, idx, handler, emailResp, transport,
                   started, returns, responses, result, uuids>>
    /\ UNCHANGED rvars

\* middleware.RequireLandlord
RequireLandlord == RequireUserType("RequireLandlord", {"landlord"})

\* middleware.RequireTenant
RequireTenant == RequireUserType("RequireTenant", {"tenant"})

\* middleware.RequireLandlordOrTenant
RequireLandlordOrTenant ==
    RequireUserType("RequireLandlordOrTenant", {"landlord", "tenant"})

RoleMiddlewares ==
    {"RequireLandlord", "RequireTenant", "RequireLandlordOrTenant"}

RoleGroups == {"landlord", "tenant"} \cup SharedGroups

\* NewRouter registers no route in the role groups yet. The chains a route
\* of such a group gets, and a role middleware put in front of a handler
\* with no AuthMiddleware before it
RoleChains ==
    {GroupHandlers(g) \o <<"handler">> : g \in RoleGroups}
        \cup {<<m, "handler">> : m \in RoleMiddlewares}

RoleRequests ==
    {[Method |-> m, Path |-> "/api/v1/landlord/dashboard",
      Authorization |-> a, Params |-> NoParams] :
        m \in Methods, a \in Authorizations}

MiddlewareInit ==
    /\ DispatchIdle
    /\ RenderIdle
    /\ httpReq \in RoleRequests
    /\ handlers \in RoleChains
    /\ index = 1
    /\ aborted = FALSE
    /\ status = 0
    /\ Keys = Nil
    /\ ran = <<>>
    /\ body = Nil
    /\ s3 = <<>>
    /\ validated = Nil
    /\ pc = "Next"

\* the handler behind the middleware runs
GroupHandler ==
    /\ Running("handler")
    /\ Respond("handler", 200, Nil, <<>>)
    /\ UNCHANGED <<entry, requests, idx, handler, emailResp, transport,
                   started, returns, responses, result, uuids>>
    /\ UNCHANGED rvars

MiddlewareNext ==
    \/ ginMiddleware
    \/ corsMiddleware
    \/ AuthMiddleware
    \/ RequireLandlord
    \/ RequireTenant
    \/ RequireLandlordOrTenant
    \/ GroupHandler
    \/ Served

MiddlewareSpec == MiddlewareInit /\ [][MiddlewareNext]_<<vars, rvars, hvars>>

HttpNext ==
    \/ ServeHTTP
    \/ ginMiddleware
    \/ corsMiddleware
    \/ AuthMiddleware
    \/ RouteHandler
    \/ GetProfile
    \/ UploadFile
    \/ DeleteFile
    \/ ListFiles
    \/ GetSignedURL
    \/ GetFileMetadata
    \/ Served

HttpSpec == HttpInit /\ [][HttpNext]_<<vars, rvars, hvars>>

-----------------------------------------------------------------------------
(* C20: the routes behind AuthMiddleware *)

\* the request carries a bearer token that ValidateToken accepts
ValidBearer ==
    /\ HasPrefix(httpReq.Authorization, "Bearer ")
    /\ ValidateToken(TrimPrefix(httpReq.Authorization, "Bearer ")).kind
          = "claims"

AuthenticationHandlers == {"SignUp", "ConfirmSignUp", "SignIn", "RefreshToken"}

OpenHandlers ==
    AuthenticationHandlers \cup {"healthCheck", "swaggerHandler", "root"}

-----------------------------------------------------------------------------
(* C21, C23, C26: the handlers behind AuthMiddleware *)

\* the landlord account a key belongs to: generateFileKey puts the landlord
\* id in front of the first "/"
KeyOwner(key) ==
    LET slashes == {i \in 1..Len(key) : SubSeq(key, i, i) = "/"} IN
    IF slashes = {} THEN "" ELSE SubSeq(key, 1, Min(slashes) - 1)

KeyOnly == {"DeleteFile", "GetSignedURL", "GetFileMetadata"}

\* C21: file data is isolated per landlord: a delete, a metadata read or a
\* signed URL is only ever asked of the S3 service for a key that belongs to
\* the landlord account in the caller's own claims
C21_LandlordIsolation ==
    \A k \in DOMAIN s3 :
        s3[k].op \in KeyOnly =>
            /\ Keys # Nil
            /\ Keys[1].LandlordID = <<KeyOwner(s3[k].Key)>>

\* C23: for every request that passed AuthMiddleware, GET /auth/profile
\* answers 200 with the user id and the user type of the claims the
\* middleware stored
C23_Profile ==
    (/\ pc = "served"
     /\ httpReq.Method = "GET"
     /\ httpReq.Path = "/api/v1/auth/profile"
     /\ Keys # Nil) =>
        /\ status = 200
        /\ body = <<[UserID |-> Keys[1].UserID, UserType |-> Keys[1].UserType]>>

LandlordChecked == {"UploadFile", "DeleteFile", "ListFiles"}

\* the landlord id of the caller's claims is missing or is not the
\* landlord_id of the request
ClaimDiffers ==
    \/ Keys = Nil
    \/ Keys[1].LandlordID # <<httpReq.Params.landlord_id>>

\* every call of the three service methods is made for the landlord_id of
\* the request, which is the landlord id of the caller's claims
CallsForOwnLandlord ==
    \A k \in DOMAIN s3 :
        s3[k].op \in LandlordChecked =>
            /\ s3[k].LandlordID = httpReq.Params.landlord_id
            /\ ~ClaimDiffers

\* the request passes what the handler that ran checks before the landlord
\* id: a file is there (upload), the required fields are not empty
Validated ==
    LET q == httpReq.Params IN
    CASE ran = <<"UploadFile">> ->
            q.file /\ q.landlord_id # "" /\ q.category # "" /\ q.entity_id # ""
      [] ran = <<"DeleteFile">> -> q.file_key # "" /\ q.landlord_id # ""
      [] ran = <<"ListFiles">> ->
            q.landlord_id # "" /\ q.category # "" /\ q.entity_id # ""
      [] OTHER -> FALSE

\* C26 as stated: the three handlers call the S3 service only when the
\* claims carry the landlord_id of the request, and answer 403 without a
\* call whenever the claim is absent or differs
C26_Always403 ==
    /\ CallsForOwnLandlord
    /\ \A k \in DOMAIN ran :
          (ran[k] \in LandlordChecked /\ ClaimDiffers) =>
              status = 403 /\ s3 = <<>>

\* C26: the three handlers call the S3 service only when the claims carry
\* the landlord_id of the request; for a request that passes the checks made
\* before (file present, required fields not empty) they answer 403 without
\* a call when the claim is absent or differs, and a request that does not
\* pass them is answered 400 without a call
C26_LandlordChecked ==
    /\ CallsForOwnLandlord
    /\ \A k \in DOMAIN ran :
          ran[k] \in LandlordChecked =>
              /\ (Validated /\ ClaimDiffers) => (status = 403 /\ s3 = <<>>)
              /\ ~Validated => (status = 400 /\ s3 = <<>>)
              /\ (Validated /\ ~ClaimDiffers) => Len(s3) = 1

C26_Witness ==
    /\ pc = "served"
    /\ ran = <<"DeleteFile">>
    /\ httpReq.Authorization = "Bearer landlord"
    /\ httpReq.Params.landlord_id = ValidUUID2
    /\ httpReq.Params.file_key = FileKey2
    /\ status = 403
    /\ s3 = <<>>

-----------------------------------------------------------------------------
(* C22, C24, C29: ValidateToken and AuthMiddleware *)

\* the token string is a well-formed JWT, signed with an HMAC method, whose
\* signature verifies under the configured secret
WellSigned(tokenString) ==
    LET t == jwtDecode(tokenString) IN
    t.form /\ t.alg \in HMACMethods /\ t.sig

\* its exp claim, when it has one, is a number and lies in the future
Unexpired(tokenString) ==
    LET claims == jwtDecode(tokenString).claims IN
    "exp" \in DOMAIN claims =>
        (claims.exp.type = "float64" /\ claims.exp.n > Now)

\* C22: ValidateToken returns an error and no claims for every token string
\* that is not a well-formed JWT correctly signed with an HMAC method under
\* the configured secret, the empty string included; claims are returned
\* only for a token that parses and is valid
C22_Rejects ==
    validated # Nil =>
        LET v == validated[1] IN
        /\ ~WellSigned(v.tokenString) =>
              /\ v.ret.kind = "error"
              /\ v.ret.err # NoError
              /\ v.ret.claims = Nil
        /\ v.ret.kind = "claims" =>
              /\ WellSigned(v.tokenString)
              /\ Unexpired(v.tokenString)
              /\ v.ret.err = NoError
              /\ v.ret.claims # Nil

C22_Witness ==
    /\ validated # Nil
    /\ validated[1].tokenString = ""
    /\ validated[1].ret.kind = "error"
    /\ validated[1].ret.claims = Nil
    /\ status = 401

\* AuthMiddleware has run for the request
AuthMiddlewareDone ==
    \E k \in DOMAIN handlers :
        /\ handlers[k] = "AuthMiddleware"
        /\ index > k \/ (aborted /\ index = k) \/ pc = "panicked"

\* AuthMiddleware called c.Next()
AuthMiddlewarePassed ==
    \E k \in DOMAIN handlers : handlers[k] = "AuthMiddleware" /\ index > k

\* C24: AuthMiddleware lets the next handler run, and stores the claims, if
\* and only if the Authorization header is there, starts with "Bearer " and
\* ValidateToken accepts the rest; in each failing case it answers 401,
\* aborts the chain and stores no claims
C24_AuthMiddleware ==
    AuthMiddlewareDone =>
        /\ AuthMiddlewarePassed <=> ValidBearer
        /\ Keys # Nil <=> ValidBearer
        /\ ~ValidBearer => (status = 401 /\ aborted /\ Keys = Nil)

\* C29: ValidateToken is total: for every token, one that is correctly
\* signed but has no exp claim or a non-numeric one included, the call ends
\* by returning claims or an error; when claims are returned, ExpiresAt is
\* the token's exp claim
C29_Total ==
    validated # Nil =>
        LET v == validated[1] IN
        /\ v.ret.kind \in {"claims", "error"}
        /\ v.ret.kind = "claims" =>
              v.ret.claims[1].ExpiresAt = jwtDecode(v.tokenString).claims.exp.n

-----------------------------------------------------------------------------
(* C28: the two templates of a critical type *)

Selected == pc \in {"replaceVariables", "rendered"}

\* C28: the email and the SMS template are selected independently from the
\* same type: for the types maintenance_emergency and payment_overdue the
\* email is rendered from the generic email template and the SMS from the
\* SMS template of the type, with a mapping that holds recipient_name only,
\* so that the SMS text handed to the transport still holds the literal
\* {{property_name}}
C28_CriticalTemplates ==
    (Selected /\ job.req.Type \in KnownSMSTypes) =>
        /\ job.kind = "email" =>
              job.template = <<GenericSubject, GenericHTMLBody, GenericTextBody>>
        /\ job.kind = "sms" =>
              /\ job.template =
                    <<IF job.req.Type = "maintenance_emergency"
                      THEN MaintenanceEmergencySMS ELSE PaymentOverdueSMS>>
              /\ DOMAIN job.variables = {"recipient_name"}
              /\ pc = "rendered" =>
                    Contains(handed[1][1], Token("property_name"))

C28_Witness ==
    /\ Handed
    /\ job.kind = "sms"
    /\ job.req.Type = "payment_overdue"
    /\ handed = <<(<<PaymentOverdueSMS>>)>>
    /\ Contains(PaymentOverdueSMS, "{{property_name}}")

-----------------------------------------------------------------------------
(* C25: the role middlewares *)

\* the user types a role middleware is for
AllowedBy(m) ==
    CASE m = "RequireLandlord" -> {"landlord"}
      [] m = "RequireTenant" -> {"tenant"}
      [] m = "RequireLandlordOrTenant" -> {"landlord", "tenant"}

\* C25: a role middleware passes the request on only when claims are in the
\* context and the user type is one it is for; it answers 401 and aborts
\* without claims, 403 and aborts for another user type, and the handler
\* behind it never runs for another user type
C25_RoleMiddlewares ==
    \A k \in DOMAIN handlers :
        (handlers[k] \in RoleMiddlewares /\ (index > k \/ (aborted /\ index = k))) =>
            LET allowed == AllowedBy(handlers[k])
                matches == Keys # Nil /\ Keys[1].UserType \in allowed
            IN  /\ index > k <=> matches
                /\ Keys = Nil => (status = 401 /\ aborted /\ index = k)
                /\ (Keys # Nil /\ Keys[1].UserType \notin allowed) =>
                      (status = 403 /\ aborted /\ index = k)
                /\ ~matches => ran = <<>>

C25_Witness ==
    /\ pc = "served"
    /\ \E k \in DOMAIN handlers : handlers[k] = "RequireLandlord" /\ index = k
    /\ Keys # Nil
    /\ Keys[1].UserType = "tenant"
    /\ status = 403
    /\ aborted
    /\ ran = <<>>

=============================================================================
